---- MODULE Spec2Model ----
(***************************************************************************)
(* Model of the two front ends of the Creator/Editor drafting assistant:   *)
(*   author.py          terminal loop over a LangGraph state graph         *)
(*   authorChainlit.py  chat widget with asynchronous handlers             *)
(* A text is a sequence of one-character strings.                          *)
(***************************************************************************)
EXTENDS Integers, Sequences, FiniteSets, Bags, TLC

\* ---------------------------------------------------------------- bounds
\* terminal: creator_node rounds explored (iteration is unbounded in the code)
MaxIter == 4
\* chat: handlers of one session that may be suspended at an await at once
MaxTasks == 2
\* parser: pieces (markers, blanks, letters) a parsed text is put together from
MaxPieces == 4

\* ----------------------------------------------------------------- texts
EmptyText == <<>>

\* Python str.strip() removes leading and trailing whitespace
IsSpace(c) == c \in {" ", "\n", "\t"}

Strip(text) ==
    LET keep == {i \in 1..Len(text) : ~IsSpace(text[i])}
    IN  IF keep = {} THEN EmptyText
        ELSE LET lo == CHOOSE i \in keep : \A j \in keep : i <= j
                 hi == CHOOSE i \in keep : \A j \in keep : j <= i
             IN  SubSeq(text, lo, hi)

\* Python str.lower() on the letters that occur in the markers
LowerChar(c) ==
    CASE c = "S" -> "s" [] c = "U" -> "u" [] c = "G" -> "g" [] c = "E" -> "e"
      [] c = "T" -> "t" [] c = "I" -> "i" [] c = "O" -> "o" [] c = "N" -> "n"
      [] c = "R" -> "r" [] c = "W" -> "w" [] OTHER -> c

Lower(text) == [i \in 1..Len(text) |-> LowerChar(text[i])]

\* Python str.find(): 0-based index of the first occurrence, -1 when absent
Find(text, pat) ==
    LET hits == {i \in 0..(Len(text) - Len(pat)) :
                    SubSeq(text, i + 1, i + Len(pat)) = pat}
    IN  IF hits = {} THEN -1
        ELSE CHOOSE i \in hits : \A j \in hits : i <= j

\* Python text[a:b] and text[a:] for 0 <= a, 0 <= b
Slice(text, a, b) ==
    LET hi == IF b < Len(text) THEN b ELSE Len(text)
    IN  IF a >= hi THEN EmptyText ELSE SubSeq(text, a + 1, hi)

SliceFrom(text, a) == Slice(text, a, Len(text))

StartsWith(text, pat) ==
    /\ Len(pat) <= Len(text)
    /\ SubSeq(text, 1, Len(pat)) = pat

\* the marker literals of parse_editor_response
HdrSuggestionsUpper ==
    <<"#","#","#"," ","S","U","G","G","E","S","T","I","O","N","S">>
HdrSuggestionsTitle ==
    <<"#","#","#"," ","S","u","g","g","e","s","t","i","o","n","s">>
HdrSuggestionsLower ==
    <<"#","#","#"," ","s","u","g","g","e","s","t","i","o","n","s">>
HdrRewrittenUpper ==
    <<"#","#","#"," ","R","E","W","R","I","T","T","E","N">>
HdrRewrittenTitle ==
    <<"#","#","#"," ","R","e","w","r","i","t","t","e","n">>
HdrRewrittenLower ==
    <<"#","#","#"," ","r","e","w","r","i","t","t","e","n">>

\* the loop "for hdr in (...): if s.startswith(hdr): s = s[len(hdr):].strip()"
CleanHeader(text, hdr) ==
    IF StartsWith(text, hdr) THEN Strip(SliceFrom(text, Len(hdr))) ELSE text

CleanHeaders(text, hdr1, hdr2) == CleanHeader(CleanHeader(text, hdr1), hdr2)

\* author.py parse_editor_response: <<suggestions, rewritten>>
parse_editor_response(text) ==
    LET lower == Lower(text)
        sugg_idx == Find(lower, HdrSuggestionsLower)
        rew_idx == Find(lower, HdrRewrittenLower)
    IN  IF sugg_idx = -1 \/ rew_idx = -1 THEN <<Strip(text), EmptyText>>
        ELSE LET suggestions ==
                     IF sugg_idx < rew_idx
                     THEN Strip(Slice(text, sugg_idx, rew_idx))
                     ELSE Strip(SliceFrom(text, sugg_idx + Len(HdrSuggestionsUpper)))
                 rewritten ==
                     IF sugg_idx < rew_idx
                     THEN Strip(SliceFrom(text, rew_idx + Len(HdrRewrittenUpper)))
                     ELSE Strip(Slice(text, rew_idx, sugg_idx))
             IN  << CleanHeaders(suggestions, HdrSuggestionsUpper, HdrSuggestionsTitle),
                    CleanHeaders(rewritten, HdrRewrittenUpper, HdrRewrittenTitle) >>

\* variant with a slip: the whole text is returned as it came, untrimmed
parse_editor_response_untrimmed(text) == <<text, EmptyText>>

\* authorChainlit.py parse_editor_response: <<suggestions, rewritten>>
parse_editor_response_cl(text) ==
    LET lower == Lower(text)
        sugg_idx == Find(lower, HdrSuggestionsLower)
        rew_idx == Find(lower, HdrRewrittenLower)
    IN  IF sugg_idx = -1 \/ rew_idx = -1 THEN <<Strip(text), EmptyText>>
        ELSE IF sugg_idx < rew_idx
             THEN << Strip(Slice(text, sugg_idx + Len(HdrSuggestionsLower), rew_idx)),
                     Strip(SliceFrom(text, rew_idx + Len(HdrRewrittenLower))) >>
             ELSE << Strip(SliceFrom(text, sugg_idx + Len(HdrSuggestionsLower))),
                     Strip(Slice(text, rew_idx + Len(HdrRewrittenLower), sugg_idx)) >>

\* --------------------------------------------------- the environment's inputs
NL == <<"\n">>

\* texts the Creator model may return: empty, blank, plain, blank-padded.  The chat
\* front end never strips content, so the blank cases add nothing there.
CreatorTexts(fe) ==
    IF fe = "terminal" THEN {EmptyText, <<" ">>, <<"a">>, <<"b", " ">>}
    ELSE {EmptyText, <<"a">>}

\* texts the Editor model may return
RespWellFormed ==
    HdrSuggestionsUpper \o NL \o <<"s">> \o NL \o HdrRewrittenUpper \o NL \o <<"r">>
RespNoMarkers == <<"x">>
EditorTexts == {RespWellFormed, RespNoMarkers, EmptyText}

\* texts the human may type (an idea, instructions, a manual edit)
HumanTexts(fe) ==
    IF fe = "terminal" THEN {EmptyText, <<"c">>, <<" ", "c">>}
    ELSE {EmptyText, <<"c">>}

\* the outcome of one call of a language model: it returns a text or raises
Returned(text) == [raised |-> FALSE, text |-> text]
Raised == [raised |-> TRUE, text |-> EmptyText]
LLMOutcomes(texts) == {Returned(t) : t \in texts} \cup {Raised}

EditorFailedMsg == <<"(Editor call failed. You can continue editing manually.)">>

\* values of the bookkeeping variables that are not texts of the program
NoFile == <<"no file">>
NoReview == <<"no review">>
NoInput == <<"no input">>

\* ------------------------------------------------------------------ state
VARIABLES
    frontend,   \* which program runs: "terminal" (author.py) or "chat" (authorChainlit.py)
    pc,         \* terminal: the graph node about to run, "end" after END, "exit" after main
    state,      \* terminal: the DocState the graph carries
    session,    \* chat: the keys of cl.user_session
    tasks,      \* chat: the bag of handlers suspended at an await
    buttons,    \* chat: a message carrying the five actions has been sent
    file,       \* the text last written to the Markdown file, NoFile if none was written
    last,       \* history: the operation the last step performed
    invoked,    \* history: the role whose model the last step called ("none" if neither)
    raised,     \* history: the last step let an exception leave its handler
    input,      \* history: the text the human typed for the last step, NoInput if none
    reviewed,   \* history: the content the last Editor call was made on, NoReview if none
    finished,   \* history: the human has chosen Finish
    genFailed,  \* history: the initial Creator generation raised
    editorEver, \* history: the Editor model has been called
    resp,       \* parser: the text handed to parse_editor_response
    prompted,   \* history (chat): Revise or Edit was clicked since the last message
    results     \* parser: what each front end's parse_editor_response returned for resp

vars == << frontend, pc, state, session, tasks, buttons, file, last, invoked,
           raised, input, reviewed, finished, genFailed, editorEver, resp, results, prompted >>

\* the two definitions of parse_editor_response, named by their front end
Parsers == {"terminal", "chat"}

NotParsed == <<"not parsed">>

NothingParsed == [p \in Parsers |-> NotParsed]

\* author.py main(): the initial DocState
InitialState ==
    [ content |-> EmptyText, edited_version |-> EmptyText, suggestions |-> EmptyText,
      approved |-> FALSE, iteration |-> 0 ]

\* authorChainlit.py on_chat_start(): the initial session keys
InitialSession ==
    [ content |-> EmptyText, suggestions |-> EmptyText, edited_version |-> EmptyText,
      context |-> "initial_idea" ]

Init ==
    /\ frontend \in {"terminal", "chat"}
    /\ pc = IF frontend = "terminal" THEN "creator" ELSE "chat"
    /\ state = InitialState
    /\ session = InitialSession
    /\ tasks = EmptyBag
    /\ buttons = FALSE
    /\ file = NoFile
    /\ last = "start"
    /\ invoked = "none"
    /\ raised = FALSE
    /\ input = NoInput
    /\ reviewed = NoReview
    /\ finished = FALSE
    /\ genFailed = FALSE
    /\ editorEver = FALSE
    /\ resp = EmptyText
    /\ results = NothingParsed
    /\ prompted = FALSE

\* ------------------------------------------------- terminal front end (author.py)
\* LangGraph applies a node's returned dict to the state key by key
Merge(st, upd) == [k \in DOMAIN st |-> IF k \in DOMAIN upd THEN upd[k] ELSE st[k]]

NoUpdate == <<>>

\* read_multiline(): the typed lines joined and stripped
read_multiline(typed) == Strip(typed)

route_after_creator(st) == IF st.approved THEN "end" ELSE "editor"

\* creator_node takes its first branch: the welcome prompt
AtWelcome(st) == st.iteration = 0 /\ st.content = EmptyText

\* variant with a slip: a failed first generation is counted as a round instead of ending the run
creator_initial_continues(st, suggestion, outcome) ==
    IF suggestion = EmptyText THEN [approved |-> TRUE]
    ELSE IF outcome.raised THEN [iteration |-> st.iteration + 1]
    ELSE [content |-> outcome.text, iteration |-> st.iteration + 1]

\* creator_node, first branch: what it returns for an idea and the model's outcome
creator_initial(st, suggestion, outcome) ==
    IF suggestion = EmptyText THEN [approved |-> TRUE]
    ELSE IF outcome.raised THEN [approved |-> TRUE]
    ELSE [content |-> outcome.text, iteration |-> st.iteration + 1]

\* variant with a slip: the accepted rewrite is stored but the round is not counted
creator_accept_uncounted(st) ==
    IF st.edited_version # EmptyText
    THEN [content |-> st.edited_version]
    ELSE [iteration |-> st.iteration + 1]

\* creator_node, choice "1"
creator_accept(st) ==
    IF st.edited_version # EmptyText
    THEN [content |-> st.edited_version, iteration |-> st.iteration + 1]
    ELSE [iteration |-> st.iteration + 1]

\* variant with a slip: the typed text is dropped
creator_edit_dropped(st, new_text) == [iteration |-> st.iteration + 1]

\* creator_node, choice "2"
creator_edit(st, new_text) ==
    IF new_text # EmptyText
    THEN [content |-> new_text, iteration |-> st.iteration + 1]
    ELSE [iteration |-> st.iteration + 1]

\* creator_node, choice "3"
creator_revise(st, user_instr, outcome) ==
    IF Strip(user_instr) = EmptyText THEN [iteration |-> st.iteration + 1]
    ELSE IF outcome.raised THEN [iteration |-> st.iteration + 1]
    ELSE [content |-> outcome.text, iteration |-> st.iteration + 1]

\* variant with a slip: showing the diff is not counted as a round
creator_diff_uncounted(st) == [iteration |-> st.iteration]

\* creator_node, choice "4"
creator_diff(st) == [iteration |-> st.iteration + 1]

\* creator_node, choice "5"
creator_finish(st) == [approved |-> TRUE]

\* variant with a slip: an unrecognized choice ends the session
creator_invalid_quits(st) == [approved |-> TRUE]

\* creator_node, any other choice
creator_invalid(st) == [iteration |-> st.iteration + 1]

\* variant with a slip: a failed Editor call returns no update
editor_node_silent(st, outcome) ==
    IF Strip(st.content) = EmptyText THEN NoUpdate
    ELSE IF outcome.raised THEN NoUpdate
         ELSE LET parsed == parse_editor_response(outcome.text)
              IN  [suggestions |-> parsed[1], edited_version |-> parsed[2]]

\* editor_node: what it returns for the model's outcome
editor_node(st, outcome) ==
    IF Strip(st.content) = EmptyText THEN NoUpdate
    ELSE IF outcome.raised
         THEN [suggestions |-> EditorFailedMsg, edited_version |-> EmptyText]
         ELSE LET parsed == parse_editor_response(outcome.text)
              IN  [suggestions |-> parsed[1], edited_version |-> parsed[2]]

\* variant with a slip: the file is written without the trailing newline
main_save_bare(st) ==
    LET final_content == Strip(st.content)
    IN  IF final_content = EmptyText THEN NoFile ELSE final_content

\* main(): the text written to the file, NoFile when the save step is skipped
main_save(st) ==
    LET final_content == Strip(st.content)
    IN  IF final_content = EmptyText THEN NoFile ELSE final_content \o NL

\* one run of creator_node followed by the conditional edge
CreatorStep(upd, name, role, typed) ==
    /\ state' = Merge(state, upd)
    /\ pc' = route_after_creator(state')
    /\ last' = name
    /\ invoked' = role
    /\ raised' = FALSE
    /\ input' = typed
    /\ UNCHANGED << frontend, resp, results, prompted, session, tasks, buttons, file, reviewed, editorEver >>

AtMenu ==
    /\ frontend = "terminal"
    /\ pc = "creator"
    /\ ~AtWelcome(state)

\* the rounds explored are bounded
CanIterate == state.iteration < MaxIter

TermInitial ==
    /\ frontend = "terminal"
    /\ pc = "creator"
    /\ AtWelcome(state)
    /\ \E typed \in HumanTexts(frontend) :
         LET suggestion == read_multiline(typed)
         IN  \E outcome \in (IF suggestion = EmptyText THEN {Raised}
                             ELSE LLMOutcomes(CreatorTexts(frontend))) :
               /\ CreatorStep(creator_initial(state, suggestion, outcome),
                              IF suggestion = EmptyText THEN "initial_empty"
                              ELSE IF outcome.raised THEN "initial_fail" ELSE "initial",
                              IF suggestion = EmptyText THEN "none" ELSE "creator",
                              typed)
               /\ genFailed' = (suggestion # EmptyText /\ outcome.raised)
               /\ UNCHANGED finished

TermAccept ==
    /\ AtMenu
    /\ CanIterate
    /\ CreatorStep(creator_accept(state), "accept", "none", NoInput)
    /\ UNCHANGED << finished, genFailed >>

TermEdit ==
    /\ AtMenu
    /\ CanIterate
    /\ \E typed \in HumanTexts(frontend) :
         CreatorStep(creator_edit(state, read_multiline(typed)), "edit", "none", typed)
    /\ UNCHANGED << finished, genFailed >>

TermRevise ==
    /\ AtMenu
    /\ CanIterate
    /\ \E typed \in HumanTexts(frontend) :
         LET user_instr == read_multiline(typed)
         IN  \E outcome \in (IF Strip(user_instr) = EmptyText THEN {Raised}
                             ELSE LLMOutcomes(CreatorTexts(frontend))) :
               CreatorStep(creator_revise(state, user_instr, outcome),
                           IF Strip(user_instr) = EmptyText THEN "revise_skip"
                           ELSE IF outcome.raised THEN "revise_fail" ELSE "revise",
                           IF Strip(user_instr) = EmptyText THEN "none" ELSE "creator",
                           typed)
    /\ UNCHANGED << finished, genFailed >>

TermDiff ==
    /\ AtMenu
    /\ CanIterate
    /\ CreatorStep(creator_diff(state), "diff", "none", NoInput)
    /\ UNCHANGED << finished, genFailed >>

TermFinish ==
    /\ AtMenu
    /\ CreatorStep(creator_finish(state), "finish", "none", NoInput)
    /\ finished' = TRUE
    /\ UNCHANGED genFailed

TermInvalid ==
    /\ AtMenu
    /\ CanIterate
    /\ CreatorStep(creator_invalid(state), "invalid", "none", NoInput)
    /\ UNCHANGED << finished, genFailed >>

TermEditor ==
    /\ frontend = "terminal"
    /\ pc = "editor"
    /\ LET called == Strip(state.content) # EmptyText
       IN  /\ \E outcome \in (IF called THEN LLMOutcomes(EditorTexts) ELSE {Raised}) :
                /\ state' = Merge(state, editor_node(state, outcome))
                /\ last' = IF ~called THEN "editor_skip"
                           ELSE IF outcome.raised THEN "editor_fail" ELSE "editor"
           /\ invoked' = IF called THEN "editor" ELSE "none"
           /\ reviewed' = IF called THEN state.content ELSE reviewed
           /\ editorEver' = (editorEver \/ called)
    /\ pc' = "creator"
    /\ raised' = FALSE
    /\ input' = NoInput
    /\ UNCHANGED << frontend, resp, results, prompted, session, tasks, buttons, file, finished, genFailed >>

\* main() after app.invoke returns: the save step, whose write may fail
TermSave ==
    /\ frontend = "terminal"
    /\ pc = "end"
    /\ \E ok \in BOOLEAN :
         /\ file' = IF ok THEN main_save(state) ELSE NoFile
         /\ last' = IF main_save(state) = NoFile THEN "save_skip"
                    ELSE IF ok THEN "save" ELSE "save_fail"
    /\ pc' = "exit"
    /\ invoked' = "none"
    /\ raised' = FALSE
    /\ input' = NoInput
    /\ UNCHANGED << frontend, resp, results, prompted, state, session, tasks, buttons, reviewed, finished,
                    genFailed, editorEver >>

TerminalNext ==
    \/ TermInitial \/ TermAccept \/ TermEdit \/ TermRevise \/ TermDiff
    \/ TermFinish \/ TermInvalid \/ TermEditor \/ TermSave

\* ---------------------------------------------- chat front end (authorChainlit.py)
\* cl.user_session.set(key, value)
SessionSet(sess, key, value) == [sess EXCEPT ![key] = value]

NoPrompt == <<"no prompt">>

\* a suspended handler: where it waits, and what it holds in local variables
\* (the context that started a Creator call, the draft of an Editor call's prompt)
Task(p, c, prompt) == [pc |-> p, ctx |-> c, prompt |-> prompt]

Spawn(bag, task) == bag (+) SetToBag({task})
Retire(bag, task) == bag (-) SetToBag({task})
Waiting(p) == {task \in BagToSet(tasks) : task.pc = p}
CanSpawn == BagCardinality(tasks) < MaxTasks

\* variant with a slip: the context is left as it was found
on_message_keeps_context(sess, user_input) ==
    LET context == sess.context
    IN  IF context = "initial_idea" THEN [session |-> sess, pc |-> "creator_call"]
        ELSE IF context = "revise" THEN [session |-> sess, pc |-> "creator_call"]
        ELSE IF context = "edit"
             THEN [session |-> SessionSet(sess, "content", user_input), pc |-> "review"]
        ELSE [session |-> sess, pc |-> "idle"]

\* on_message up to its first await: the session it leaves and where the handler
\* is suspended ("idle": it has returned)
on_message(sess, user_input) ==
    LET context == sess.context
        cleared == SessionSet(sess, "context", "none")
    IN  IF context = "initial_idea" THEN [session |-> cleared, pc |-> "creator_call"]
        ELSE IF context = "revise" THEN [session |-> cleared, pc |-> "creator_call"]
        ELSE IF context = "edit"
             THEN [session |-> SessionSet(cleared, "content", user_input), pc |-> "review"]
        ELSE [session |-> cleared, pc |-> "idle"]

\* on_message after the Creator's stream has ended
on_message_streamed(sess, new_content) == SessionSet(sess, "content", new_content)

\* editor_review up to the Editor call: the prompt's draft, NoPrompt when it returns early
editor_review_prompt(sess) ==
    IF sess.content = EmptyText THEN NoPrompt ELSE sess.content

\* editor_review after the Editor call has returned
editor_review_store(sess, response) ==
    LET parsed == parse_editor_response_cl(response)
    IN  SessionSet(SessionSet(sess, "suggestions", parsed[1]), "edited_version", parsed[2])

\* display_editor_results: whether it sends the message carrying the five actions
display_editor_results(sess) ==
    ~(sess.suggestions = EmptyText /\ sess.edited_version = EmptyText)

\* variant with a slip: the rewrite is stored without testing that there is one
on_accept_unguarded(sess) ==
    [session |-> SessionSet(sess, "content", sess.edited_version), pc |-> "review"]

\* on_accept up to its first await
on_accept(sess) ==
    IF sess.edited_version # EmptyText
    THEN [session |-> SessionSet(sess, "content", sess.edited_version), pc |-> "review"]
    ELSE [session |-> sess, pc |-> "idle"]

on_revise(sess) == SessionSet(sess, "context", "revise")

on_edit(sess) == SessionSet(sess, "context", "edit")

\* on_diff: it reaches display_editor_results only with an editor version
on_diff(sess) ==
    IF sess.edited_version = EmptyText
    THEN [session |-> sess, pc |-> "idle"]
    ELSE [session |-> sess, pc |-> "display"]

\* variant with a slip: the file is written even when content is empty
on_finish_unguarded(sess) == sess.content \o NL

\* on_finish: the text written to the file, NoFile when the save step is skipped
on_finish(sess) ==
    IF sess.content = EmptyText THEN NoFile ELSE sess.content \o NL

ChatFrame == UNCHANGED << frontend, resp, results, pc, state >>

\* a human message arrives
ChatMessage ==
    /\ frontend = "chat"
    /\ \E user_input \in HumanTexts(frontend) :
         LET r == on_message(session, user_input)
             context == session.context
         IN  /\ r.pc # "idle" => CanSpawn
             /\ session' = r.session
             /\ tasks' = IF r.pc = "idle" THEN tasks
                         ELSE IF r.pc = "creator_call"
                              THEN Spawn(tasks, Task(r.pc, context, NoPrompt))
                              ELSE Spawn(tasks, Task(r.pc, "none", NoPrompt))
             /\ last' = IF context = "none" THEN "message_ignored"
                        ELSE IF context = "initial_idea" THEN "initial" ELSE context
             /\ invoked' = IF r.pc = "creator_call" THEN "creator" ELSE "none"
             /\ input' = user_input
    /\ raised' = FALSE
    /\ prompted' = FALSE
    /\ ChatFrame
    /\ UNCHANGED << buttons, file, reviewed, finished, genFailed, editorEver >>

\* the Creator's stream ends, or raises
ChatCreatorReturn ==
    /\ frontend = "chat"
    /\ \E task \in Waiting("creator_call") :
         \E outcome \in LLMOutcomes(CreatorTexts(frontend)) :
              /\ session' = IF outcome.raised THEN session
                            ELSE on_message_streamed(session, outcome.text)
              /\ tasks' = IF outcome.raised THEN Retire(tasks, task)
                          ELSE Spawn(Retire(tasks, task), Task("review", "none", NoPrompt))
              /\ last' = IF ~outcome.raised THEN "creator_return"
                         ELSE IF task.ctx = "initial_idea" THEN "initial_fail"
                         ELSE "revise_fail"
              /\ raised' = outcome.raised
              /\ genFailed' = (genFailed \/ (outcome.raised /\ task.ctx = "initial_idea"))
    /\ invoked' = "none"
    /\ input' = NoInput
    /\ ChatFrame
    /\ UNCHANGED << buttons, file, reviewed, finished, editorEver, prompted >>

\* editor_review starts: it returns early or calls the Editor
ChatReview ==
    /\ frontend = "chat"
    /\ \E task \in Waiting("review") :
         LET prompt == editor_review_prompt(session)
         IN  /\ tasks' = IF prompt = NoPrompt THEN Retire(tasks, task)
                         ELSE Spawn(Retire(tasks, task), Task("editor_call", "none", prompt))
             /\ last' = IF prompt = NoPrompt THEN "editor_skip" ELSE "review"
             /\ invoked' = IF prompt = NoPrompt THEN "none" ELSE "editor"
             /\ editorEver' = (editorEver \/ prompt # NoPrompt)
    /\ raised' = FALSE
    /\ input' = NoInput
    /\ ChatFrame
    /\ UNCHANGED << session, buttons, file, reviewed, finished, genFailed, prompted >>

\* the Editor call returns, or raises
ChatEditorReturn ==
    /\ frontend = "chat"
    /\ \E task \in Waiting("editor_call") :
         \E outcome \in LLMOutcomes(EditorTexts) :
              /\ session' = IF outcome.raised THEN session
                            ELSE editor_review_store(session, outcome.text)
              /\ tasks' = IF outcome.raised THEN Retire(tasks, task)
                          ELSE Spawn(Retire(tasks, task), Task("display", "none", NoPrompt))
              /\ reviewed' = IF outcome.raised THEN reviewed ELSE task.prompt
              /\ last' = IF outcome.raised THEN "editor_fail" ELSE "editor"
              /\ raised' = outcome.raised
    /\ invoked' = "none"
    /\ input' = NoInput
    /\ ChatFrame
    /\ UNCHANGED << buttons, file, finished, genFailed, editorEver, prompted >>

\* display_editor_results runs
ChatDisplay ==
    /\ frontend = "chat"
    /\ \E task \in Waiting("display") : tasks' = Retire(tasks, task)
    /\ buttons' = (buttons \/ display_editor_results(session))
    /\ last' = IF display_editor_results(session) THEN "display" ELSE "display_plain"
    /\ invoked' = "none"
    /\ raised' = FALSE
    /\ input' = NoInput
    /\ ChatFrame
    /\ UNCHANGED << session, file, reviewed, finished, genFailed, editorEver, prompted >>

\* a click on an action of a message sent earlier
ChatClick(r, name) ==
    /\ frontend = "chat"
    /\ buttons
    /\ r.pc # "idle" => CanSpawn
    /\ session' = r.session
    /\ tasks' = IF r.pc = "idle" THEN tasks
                ELSE Spawn(tasks, Task(r.pc, "none", NoPrompt))
    /\ last' = name
    /\ invoked' = "none"
    /\ raised' = FALSE
    /\ input' = NoInput
    /\ ChatFrame
    /\ UNCHANGED << buttons, reviewed, genFailed, editorEver >>

ChatAccept ==
    /\ ChatClick(on_accept(session), "accept")
    /\ UNCHANGED << file, finished, prompted >>

ChatRevise ==
    /\ ChatClick([session |-> on_revise(session), pc |-> "idle"], "revise_click")
    /\ prompted' = TRUE
    /\ UNCHANGED << file, finished >>

ChatEdit ==
    /\ ChatClick([session |-> on_edit(session), pc |-> "idle"], "edit_click")
    /\ prompted' = TRUE
    /\ UNCHANGED << file, finished >>

ChatDiff ==
    /\ ChatClick(on_diff(session), "diff")
    /\ UNCHANGED << file, finished, prompted >>

\* on_finish, whose write may fail
ChatFinish ==
    /\ ChatClick([session |-> session, pc |-> "idle"], "finish")
    /\ \E ok \in BOOLEAN :
         file' = IF ok /\ on_finish(session) # NoFile THEN on_finish(session) ELSE file
    /\ finished' = TRUE
    /\ UNCHANGED prompted

ChatNext ==
    \/ ChatMessage \/ ChatCreatorReturn \/ ChatReview \/ ChatEditorReturn
    \/ ChatDisplay \/ ChatAccept \/ ChatRevise \/ ChatEdit \/ ChatDiff \/ ChatFinish

Next == TerminalNext \/ ChatNext

Spec == Init /\ [][Next]_vars

\* ------------------------------------ parse_editor_response taken on its own
\* what a text handed to the parser is put together from: the two markers in
\* upper, title and lower case, a blank and a letter
ParserPieces ==
    { HdrSuggestionsUpper, HdrSuggestionsTitle, HdrSuggestionsLower,
      HdrRewrittenUpper, HdrRewrittenTitle, HdrRewrittenLower, <<" ">>, <<"a">> }

RECURSIVE TextsOf(_)
TextsOf(n) ==
    IF n = 0 THEN {EmptyText}
    ELSE LET shorter == TextsOf(n - 1)
         IN  shorter \cup {t \o p : t \in shorter, p \in ParserPieces}

ParserTexts == TextsOf(MaxPieces)

ParseInit ==
    /\ frontend = "parser"
    /\ pc = "parse"
    /\ resp \in ParserTexts
    /\ results = NothingParsed
    /\ prompted = FALSE
    /\ state = InitialState
    /\ session = InitialSession
    /\ tasks = EmptyBag
    /\ buttons = FALSE
    /\ file = NoFile
    /\ last = "start"
    /\ invoked = "none"
    /\ raised = FALSE
    /\ input = NoInput
    /\ reviewed = NoReview
    /\ finished = FALSE
    /\ genFailed = FALSE
    /\ editorEver = FALSE

ParseFrame ==
    UNCHANGED << frontend, pc, state, session, tasks, buttons, file, last, invoked,
                 raised, input, reviewed, finished, genFailed, editorEver, resp, prompted >>

\* author.py's parse_editor_response is applied to the text
ParseAuthor ==
    /\ frontend = "parser"
    /\ results["terminal"] = NotParsed
    /\ results' = [results EXCEPT !["terminal"] = parse_editor_response(resp)]
    /\ ParseFrame

\* authorChainlit.py's parse_editor_response is applied to the text
ParseChainlit ==
    /\ frontend = "parser"
    /\ results["chat"] = NotParsed
    /\ results' = [results EXCEPT !["chat"] = parse_editor_response_cl(resp)]
    /\ ParseFrame

ParseNext == ParseAuthor \/ ParseChainlit

SpecParse == ParseInit /\ [][ParseNext]_vars

\* ------------------------------------------------------------- properties
Content == IF frontend = "terminal" THEN state.content ELSE session.content
Suggestions == IF frontend = "terminal" THEN state.suggestions ELSE session.suggestions
Rewritten == IF frontend = "terminal" THEN state.edited_version ELSE session.edited_version

\* chat: handlers about to run editor_review, and role calls awaited
ReviewsPending == CopiesIn(Task("review", "none", NoPrompt), tasks)
InFlight == {task \in BagToSet(tasks) : task.pc \in {"creator_call", "editor_call"}}
CallsInFlight == BagCardinality([task \in InFlight |-> CopiesIn(task, tasks)])

\* the menu is about to be shown (terminal) or has just been sent (chat)
MenuPresented ==
    \/ frontend = "terminal" /\ pc = "creator" /\ ~AtWelcome(state)
    \/ frontend = "chat" /\ last = "display"

C2_AcceptEmpty ==
    [][ (last' = "accept" /\ Rewritten = EmptyText) =>
            /\ Content' = Content
            /\ ~raised'
            /\ frontend = "terminal" => pc' # "end"
      ]_vars

C2_Witness ==
    /\ last = "accept"
    /\ Rewritten = EmptyText
    /\ Content # EmptyText

\* the terminal's choices that the controller is to treat as staying at the menu
StaysAtMenu(op, st, typed) ==
    \/ op = "accept" /\ st.edited_version = EmptyText
    \/ op = "revise_skip"
    \/ op = "invalid"

FieldsUnchanged ==
    /\ Content' = Content
    /\ Suggestions' = Suggestions
    /\ Rewritten' = Rewritten

\* C3: Show diff leaves content, suggestions, rewritten and iteration unchanged,
\* invokes neither role, and the same menu is presented again: no Editor review
\* runs between the choice and the next menu.
C3_ShowDiffNoTransition ==
    [][ /\ last' = "diff" =>
             /\ FieldsUnchanged
             /\ state'.iteration = state.iteration
             /\ invoked' = "none"
        /\ (frontend = "terminal" /\ pc = "editor" /\ last = "diff") =>
             /\ FieldsUnchanged
             /\ invoked' = "none"
      ]_vars

\* C4: in the terminal, Accept with an empty rewritten, AI revise with empty
\* instructions and an unrecognized choice invoke no role and leave content,
\* suggestions and rewritten unchanged until the menu is presented again.
C4_NonTransitioningStay ==
    [][ /\ (frontend = "terminal" /\ StaysAtMenu(last', state, input')) =>
             /\ FieldsUnchanged
             /\ invoked' = "none"
        /\ (frontend = "terminal" /\ pc = "editor" /\ StaysAtMenu(last, state, input)) =>
             /\ FieldsUnchanged
             /\ invoked' = "none"
      ]_vars

\* the text a front end receives for what the human typed
Received(typed) == IF frontend = "terminal" THEN read_multiline(typed) ELSE typed

\* C5 as claimed: for every text T typed for Manual edit, content is T afterwards,
\* iteration is incremented and a new Editor review is triggered.
C5_ManualEditAnyText ==
    [][ last' = "edit" =>
            /\ Content' = Received(input')
            /\ frontend = "terminal" =>
                 /\ state'.iteration = state.iteration + 1
                 /\ pc' = "editor"
            /\ frontend = "chat" => ReviewsPending' = ReviewsPending + 1
      ]_vars

\* C5 as amended: for every non-empty text T received for Manual edit, content is
\* T afterwards, the terminal increments iteration and its next step is an Editor
\* call on T, and the chat handler goes on to editor_review.
C5_ManualEdit ==
    [][ /\ (last' = "edit" /\ Received(input') # EmptyText) =>
             /\ Content' = Received(input')
             /\ frontend = "terminal" =>
                  /\ state'.iteration = state.iteration + 1
                  /\ pc' = "editor"
             /\ frontend = "chat" => ReviewsPending' = ReviewsPending + 1
        /\ (frontend = "terminal" /\ pc = "editor" /\ last = "edit"
              /\ Received(input) # EmptyText) =>
             /\ invoked' = "editor"
             /\ reviewed' = Received(input)
      ]_vars

C5_Witness ==
    /\ frontend = "terminal"
    /\ last = "edit"
    /\ input = <<" ", "c">>
    /\ state.content = <<"c">>
    /\ state.iteration = 2
    /\ pc = "editor"

\* C6: once the human has chosen Finish, no step invokes a role and no step
\* changes content.
C6_DoneIsTerminal ==
    [][ finished => (Content' = Content /\ invoked' = "none") ]_vars

\* a Creator-revise call or an Editor-review call has raised in the last step
RoleFailure(op) == op \in {"revise_fail", "editor_fail"}

C8_FirstGenerationFailure ==
    genFailed =>
        /\ Content = EmptyText
        /\ ~editorEver
        /\ file = NoFile
        /\ frontend = "terminal" => (state.approved /\ pc \in {"end", "exit"})
        /\ frontend = "chat" =>
             (tasks = EmptyBag /\ ~buttons /\ session.context = "none")

C8_Witness ==
    /\ genFailed
    /\ frontend = "terminal"
    /\ last = "save_skip"
    /\ pc = "exit"

\* C9: whenever the menu is presented, the suggestions and rewritten held are those
\* of an Editor call made on the current content, never those of an earlier call.
C9_NoStaleEditorOutput ==
    (MenuPresented /\ reviewed # NoReview
       /\ (Suggestions # EmptyText \/ Rewritten # EmptyText)) => reviewed = Content

\* C10: at most one Creator or Editor call is outstanding at any time.
C10_OneRoleCallAtATime == CallsInFlight <= 1

\* the step being taken completes a Creator turn: the initial generation, an
\* accepted rewrite, a manual edit that supplied a text, an AI revision
CompletesCreatorTurn ==
    \/ last' = "initial"
    \/ last' = "accept" /\ state.edited_version # EmptyText
    \/ last' = "edit" /\ Received(input') # EmptyText
    \/ last' = "revise"

CreatorRound ==
    last' \in {"initial", "accept", "edit", "revise", "revise_skip", "revise_fail",
               "diff", "invalid"}

FirstGenerationDone ==
    IF frontend = "terminal" THEN state.iteration >= 1
    ELSE /\ frontend = "chat"
         /\ session.context # "initial_idea"
         /\ ~genFailed
         /\ \A task \in BagToSet(tasks) :
                ~(task.pc = "creator_call" /\ task.ctx = "initial_idea")

\* C12: in every state after the initial Creator generation completed successfully,
\* content is non-empty, whatever the Creator returned and whatever the human
\* submitted as a manual edit.
C12_ContentNonEmptyAfterGeneration ==
    FirstGenerationDone => Content # EmptyText

\* C13 as claimed: in every state with approved true, the human chose Finish at
\* the menu earlier in the session.
C13_DoneOnlyByFinish ==
    (frontend = "terminal" /\ state.approved) => finished

\* C13 as amended: in every state with approved true, either the human chose
\* Finish at the menu earlier, or the session ended at the welcome prompt (empty
\* idea, or first generation failed) with empty content and iteration 0.
C13_DoneByFinishOrWelcomeExit ==
    (frontend = "terminal" /\ state.approved) =>
        \/ finished
        \/ /\ AtWelcome(state)
           /\ last \in {"initial_empty", "initial_fail", "save_skip"}

C13_Witness ==
    /\ frontend = "terminal"
    /\ state.approved
    /\ finished
    /\ last = "finish"
    /\ state.content # EmptyText

\* the step being taken is the save step of the terminal (main after the graph
\* has ended) or the Finish handler of the chat
SaveStep ==
    \/ frontend = "terminal" /\ last' \in {"save", "save_skip", "save_fail"}
    \/ frontend = "chat" /\ last' = "finish"

\* C17: finishing while content is empty creates and writes no file, in both
\* front ends.
C17_EmptyFinishSkipsSave ==
    [][ (SaveStep /\ Content = EmptyText) => file' = file ]_vars

C17_Witness ==
    /\ frontend = "chat"
    /\ last = "finish"
    /\ session.content = EmptyText
    /\ file = NoFile

\* C18 as claimed: for every non-empty content held at Done, a file written by the
\* save step holds exactly that content followed by one newline (the write may
\* fail, which leaves the file as it was).
C18_SavedIsContentPlusNewline ==
    [][ (SaveStep /\ Content # EmptyText) => file' \in {file, Content \o NL} ]_vars

\* C18 as amended: the terminal writes content with its leading and trailing
\* whitespace removed, followed by one newline, and writes nothing when only
\* whitespace is left; the chat writes content unchanged followed by one newline;
\* a failed write leaves the file as it was.
C18_SavedIsTrimmedContentPlusNewline ==
    [][ SaveStep =>
            IF frontend = "terminal"
            THEN /\ last' = "save" => file' = Strip(state.content) \o NL
                 /\ last' = "save" => Strip(state.content) # EmptyText
                 /\ last' # "save" => file' = file
                 /\ last' = "save_skip" <=> Strip(state.content) = EmptyText
            ELSE /\ file' \in {file, session.content \o NL}
                 /\ session.content = EmptyText => file' = file
      ]_vars

C18_Witness ==
    /\ frontend = "terminal"
    /\ last = "save"
    /\ state.content = <<"b", " ">>
    /\ file = <<"b">> \o NL

\* an Editor turn has just ended: editor_node has returned (terminal), or
\* display_editor_results has run after the review (chat)
ReviewCompleted ==
    \/ frontend = "terminal" /\ last \in {"editor", "editor_fail", "editor_skip"}
    \/ frontend = "chat" /\ last \in {"display", "display_plain"}

\* the human has something to act on: the menu, actions sent with an earlier
\* message, or a prompt the next message answers
OfferedAction ==
    \/ MenuPresented
    \/ frontend = "chat" /\ (buttons \/ session.context # "none")

\* C19: when an Editor review has completed, whatever the response parsed to, the
\* human is handed the menu, so that no state before Done leaves the human
\* without any action on offer.
C19_ReviewHandsBackMenu ==
    ReviewCompleted => OfferedAction

\* ---------------------------------------------- properties of the parser
\* 0-based position of the first case-insensitive occurrence of each marker in
\* the parsed text, -1 when there is none
SuggestionsAt == Find(Lower(resp), HdrSuggestionsLower)
RewrittenAt == Find(Lower(resp), HdrRewrittenLower)

MarkerMissing == SuggestionsAt = -1 \/ RewrittenAt = -1
MarkersInOrder == ~MarkerMissing /\ SuggestionsAt < RewrittenAt
MarkersReversed == ~MarkerMissing /\ RewrittenAt < SuggestionsAt

\* the text after each marker, up to the other marker when that one follows
AfterSuggestions ==
    IF MarkersInOrder
    THEN Slice(resp, SuggestionsAt + Len(HdrSuggestionsLower), RewrittenAt)
    ELSE SliceFrom(resp, SuggestionsAt + Len(HdrSuggestionsLower))
AfterRewritten ==
    IF MarkersReversed
    THEN Slice(resp, RewrittenAt + Len(HdrRewrittenLower), SuggestionsAt)
    ELSE SliceFrom(resp, RewrittenAt + Len(HdrRewrittenLower))

Parsed(p) == frontend = "parser" /\ results[p] # NotParsed

\* C14: when the first SUGGESTIONS marker precedes the first REWRITTEN marker, in
\* any letter case, each parser returns as suggestions the trimmed text strictly
\* between the two markers and as rewritten the trimmed text after the REWRITTEN
\* marker, so that neither field includes its own marker.
C14_MarkersInOrder ==
    \A p \in Parsers :
        (Parsed(p) /\ MarkersInOrder) =>
            results[p] = << Strip(AfterSuggestions), Strip(AfterRewritten) >>

\* C15: when either marker is missing, each parser returns the whole text trimmed
\* as suggestions and the empty text as rewritten; it always returns a pair of texts.
C15_Fallback ==
    \A p \in Parsers :
        Parsed(p) =>
            /\ Len(results[p]) = 2
            /\ MarkerMissing => results[p] = << Strip(resp), EmptyText >>

C15_Witness ==
    /\ frontend = "parser"
    /\ resp = <<" ">> \o HdrSuggestionsLower \o <<"a", " ">>
    /\ results["terminal"] = << HdrSuggestionsLower \o <<"a">>, EmptyText >>
    /\ results["chat"] = << HdrSuggestionsLower \o <<"a">>, EmptyText >>

\* C16: when the first REWRITTEN marker precedes the first SUGGESTIONS marker,
\* each parser returns as rewritten the trimmed text after the REWRITTEN marker up
\* to the SUGGESTIONS marker and as suggestions the trimmed text after the
\* SUGGESTIONS marker.
C16_MarkersReversed ==
    \A p \in Parsers :
        (Parsed(p) /\ MarkersReversed) =>
            results[p] = << Strip(AfterSuggestions), Strip(AfterRewritten) >>

\* C20: for every text, the parse_editor_response of author.py and the one of
\* authorChainlit.py return the same pair.
C20_ParsersAgree ==
    (Parsed("terminal") /\ Parsed("chat")) => results["terminal"] = results["chat"]

\* the step being taken is on_message receiving a human message (chat)
MessageStep ==
    /\ frontend = "chat"
    /\ last' \in {"initial", "revise", "edit", "message_ignored"}

\* C21: in the chat, on_message clears the context on every message; a message
\* arriving while the context is None invokes neither role, starts nothing and
\* leaves content, suggestions and edited_version unchanged; a message is taken as
\* revise instructions or as an edited draft only when Revise or Edit was clicked
\* since the previous message, so one click lets at most one message change
\* content; and content changes only in a manual-edit message, at the end of a
\* Creator stream, or on Accept.
C21_OnePromptOneMessage ==
    [][ /\ MessageStep =>
            /\ session'.context = "none"
            /\ session.context = "none" =>
                   /\ last' = "message_ignored"
                   /\ invoked' = "none"
                   /\ tasks' = tasks
                   /\ session'.content = session.content
                   /\ session'.suggestions = session.suggestions
                   /\ session'.edited_version = session.edited_version
            /\ last' \in {"revise", "edit"} => prompted
            /\ last' = "message_ignored" <=> session.context = "none"
        /\ (frontend = "chat" /\ session'.content # session.content) =>
               last' \in {"edit", "creator_return", "accept"}
      ]_vars

\* a message was ignored after an Edit click had been answered by the draft "c"
C21_Witness ==
    /\ frontend = "chat"
    /\ last = "message_ignored"
    /\ input = <<"c">>
    /\ session.content = <<"c">>
    /\ session.context = "none"
    /\ ~prompted

====
